---- MODULE Spec2Model ----
(***************************************************************************)
(* The ETL staging-and-reconciliation pipeline of the PO Management API:   *)
(* the upload handlers, the in-memory task queue with its two workers, the *)
(* staging loader, the PO upsert and Acceptance full-replace               *)
(* reconciliation, the upload history and the shutdown sequence.           *)
(*                                                                         *)
(* The database is PostgreSQL under READ COMMITTED.  Each table is its set *)
(* of committed rows; every SQLAlchemy session holds the rows it has       *)
(* written and not committed.  A unique-index insert that meets another    *)
(* session's uncommitted row with the same key waits for that session.     *)
(***************************************************************************)
EXTENDS Integers, Sequences, FiniteSets, TLC

VARIABLES
    uploads,            \* number of upload requests received so far
    rejected,           \* upload requests answered 400 by validate_file
    temp_files,         \* ids of the temp files that exist on disk
    task_queue,         \* asyncio.Queue: the items waiting
    unfinished_tasks,   \* asyncio.Queue._unfinished_tasks (what join waits on)
    worker,             \* the task_worker coroutines and the pipeline each runs
    shutdown,           \* position of shutdown_event
    next_batch,         \* uuid4 source for BaseETLProcessor.batch_id
    po_staging,         \* table po_staging (committed rows)
    purchase_orders,    \* table purchase_orders
    po_audit_log,       \* table po_audit_log
    accounts,           \* table accounts
    acceptance_staging, \* table acceptance_staging
    acceptances,        \* table acceptances
    upload_history,     \* table upload_history
    finished            \* what each finished task returned to its worker

vars == <<uploads, rejected, temp_files, task_queue, unfinished_tasks, worker,
          shutdown, next_batch, po_staging, purchase_orders, po_audit_log,
          accounts, acceptance_staging, acceptances, upload_history, finished>>

db_vars == <<po_staging, purchase_orders, po_audit_log, accounts,
             acceptance_staging, acceptances, upload_history>>

queue_vars == <<uploads, rejected, temp_files, task_queue, unfinished_tasks, shutdown>>

-----------------------------------------------------------------------------
(* Bounds of the model and constants of the program *)

MaxUploads == 2
MaxRows == 2
NumWorkers == 2
PoolThreads == 4

Workers == 1..NumWorkers

-----------------------------------------------------------------------------
(* Optional values and strings *)

None == <<>>
Some(x) == <<x>>

RECURSIVE LStrip(_)
LStrip(s) ==
    IF Len(s) > 0 /\ SubSeq(s, 1, 1) = " " THEN LStrip(SubSeq(s, 2, Len(s))) ELSE s

RECURSIVE RStrip(_)
RStrip(s) ==
    IF Len(s) > 0 /\ SubSeq(s, Len(s), Len(s)) = " "
    THEN RStrip(SubSeq(s, 1, Len(s) - 1)) ELSE s

Strip(s) == RStrip(LStrip(s))

RECURSIVE RemoveChars(_, _)
RemoveChars(s, cs) ==
    IF Len(s) = 0 THEN ""
    ELSE LET c == SubSeq(s, 1, 1)
             rest == RemoveChars(SubSeq(s, 2, Len(s)), cs)
         IN IF c \in cs THEN rest ELSE c \o rest

Digits == {"0", "1", "2", "3", "4", "5", "6", "7", "8", "9"}

DigitValue(c) ==
    CASE c = "0" -> 0 [] c = "1" -> 1 [] c = "2" -> 2 [] c = "3" -> 3
      [] c = "4" -> 4 [] c = "5" -> 5 [] c = "6" -> 6 [] c = "7" -> 7
      [] c = "8" -> 8 [] c = "9" -> 9

IsDigits(s) == Len(s) > 0 /\ \A i \in 1..Len(s) : SubSeq(s, i, i) \in Digits

RECURSIVE DigitsValue(_)
DigitsValue(s) ==
    IF Len(s) = 0 THEN 0
    ELSE 10 * DigitsValue(SubSeq(s, 1, Len(s) - 1)) + DigitValue(SubSeq(s, Len(s), Len(s)))

(* The value pandas gives a cell of a column the file does not have (None,  *)
(* map_csv_columns line 66); no text of a cell is equal to it.              *)
NullCell == "<null>"

(* What a call does: it returns a value or raises an exception. *)
Returned(v) == [raised |-> "none", value |-> v]
Raised(e) == [raised |-> e, value |-> None]

(* try: ... except (exceptions): return None, written without the handler. *)
Uncaught(outcome, exceptions) == outcome

(* try: ... except (exceptions): return None *)
Caught(outcome, exceptions) ==
    IF outcome.raised \in exceptions THEN Returned(None) ELSE outcome

(* Decimal(str): the model's cells are digit strings or text that Decimal() *)
(* refuses with InvalidOperation.                                           *)
DecimalOf(s) ==
    IF IsDigits(s) THEN Returned(Some(DigitsValue(s))) ELSE Raised("InvalidOperation")

(* float(str) ignores surrounding whitespace and reads "inf" and "nan". *)
FloatOf(s) ==
    LET t == Strip(s)
    IN IF IsDigits(t) THEN Returned([kind |-> "finite", n |-> DigitsValue(t)])
       ELSE IF t \in {"inf", "nan"} THEN Returned([kind |-> t, n |-> 0])
       ELSE Raised("ValueError")

(* int(float): OverflowError for an infinity, ValueError for a NaN. *)
IntOf(f) ==
    IF f.raised # "none" THEN Raised(f.raised)
    ELSE IF f.value.kind = "inf" THEN Raised("OverflowError")
    ELSE IF f.value.kind = "nan" THEN Raised("ValueError")
    ELSE Returned(Some(f.value.n))

(* parse_decimal, lines 88-96: blank and null give None; commas, spaces and *)
(* percent signs are removed; what Decimal() refuses gives None.            *)
parse_decimal_call(value) ==
    IF value = NullCell \/ value = "" THEN Returned(None)
    ELSE Caught(DecimalOf(RemoveChars(Strip(value), {",", " ", "%"})),
                {"InvalidOperation", "ValueError"})

parse_decimal(value) == parse_decimal_call(value).value

(* parse_integer, lines 98-105: int(float(str(value))). *)
parse_integer_call(value) ==
    IF value = NullCell \/ value = "" THEN Returned(None)
    ELSE Caught(IntOf(FloatOf(value)), {"ValueError", "OverflowError"})

parse_integer(value) == parse_integer_call(value).value

(* str.split(sep) *)
RECURSIVE Split(_, _)
Split(s, sep) ==
    IF \A i \in 1..Len(s) : SubSeq(s, i, i) # sep THEN <<s>>
    ELSE LET k == CHOOSE i \in 1..Len(s) :
                      /\ SubSeq(s, i, i) = sep
                      /\ \A j \in 1..(i - 1) : SubSeq(s, j, j) # sep
         IN <<SubSeq(s, 1, k - 1)>> \o Split(SubSeq(s, k + 1, Len(s)), sep)

(* parse_date lines 75-78: the formats in the order they are tried; time is *)
(* the number of clock fields after the date.                               *)
date_formats ==
    << [order |-> <<"Y", "m", "d">>, sep |-> "-", time |-> 0],
       [order |-> <<"d", "m", "Y">>, sep |-> "/", time |-> 0],
       [order |-> <<"m", "d", "Y">>, sep |-> "/", time |-> 0],
       [order |-> <<"d", "m", "Y">>, sep |-> "-", time |-> 0],
       [order |-> <<"Y", "m", "d">>, sep |-> "/", time |-> 0],
       [order |-> <<"d", "m", "Y">>, sep |-> ".", time |-> 0],
       [order |-> <<"Y", "m", "d">>, sep |-> "-", time |-> 3],
       [order |-> <<"m", "d", "Y">>, sep |-> "/", time |-> 2] >>

DaysInMonth(y, m) ==
    IF m = 2
    THEN (IF (y % 4 = 0 /\ y % 100 # 0) \/ y % 400 = 0 THEN 29 ELSE 28)
    ELSE IF m \in {4, 6, 9, 11} THEN 30 ELSE 31

(* One directive of strptime: %Y is four digits, the others one or two. *)
DirectiveMatches(directive, text) ==
    /\ IsDigits(text)
    /\ IF directive = "Y" THEN Len(text) = 4 ELSE Len(text) \in {1, 2}

ClockMatches(fields) ==
    /\ \A i \in 1..Len(fields) : DirectiveMatches("H", fields[i])
    /\ DigitsValue(fields[1]) <= 23
    /\ DigitsValue(fields[2]) <= 59
    /\ Len(fields) = 3 => DigitsValue(fields[3]) <= 61

(* datetime.strptime(date_str, fmt).date(): the date, or ValueError. *)
strptime(date_str, fmt) ==
    LET pieces == SelectSeq(Split(date_str, " "), LAMBDA t : t # "")
        parts == IF pieces = <<>> THEN <<>> ELSE Split(pieces[1], fmt.sep)
        at(d) == parts[CHOOSE i \in 1..3 : fmt.order[i] = d]
        year == DigitsValue(at("Y"))
        month == DigitsValue(at("m"))
        day == DigitsValue(at("d"))
    IN IF /\ Len(pieces) = (IF fmt.time = 0 THEN 1 ELSE 2)
          /\ Len(parts) = 3
          /\ \A i \in 1..3 : DirectiveMatches(fmt.order[i], parts[i])
          /\ year >= 1
          /\ month \in 1..12
          /\ day \in 1..DaysInMonth(year, month)
          /\ fmt.time # 0 =>
                 LET clock == Split(pieces[2], ":")
                 IN Len(clock) = fmt.time /\ ClockMatches(clock)
       THEN Returned(Some(<<year, month, day>>))
       ELSE Raised("ValueError")

(* Lines 81-86: the first format that parses wins; ValueError tries the     *)
(* next one, and None is returned when none is left.                        *)
RECURSIVE TryFormats(_, _)
TryFormats(date_str, k) ==
    IF k > Len(date_formats) THEN Returned(None)
    ELSE LET outcome == strptime(date_str, date_formats[k])
         IN IF outcome.raised = "ValueError" THEN TryFormats(date_str, k + 1)
            ELSE outcome

(* parse_date, lines 70-86. *)
parse_date_call(date_str) ==
    IF date_str = NullCell \/ date_str = "" \/ Strip(date_str) = "" THEN Returned(None)
    ELSE TryFormats(Strip(date_str), 1)

parse_date(date_str) == parse_date_call(date_str).value

safe_string_truncate(value, max_length) ==
    IF value = NullCell \/ value = "" THEN None
    ELSE LET str_value == Strip(value)
         IN IF max_length > 0 /\ Len(str_value) > max_length
            THEN Some(SubSeq(str_value, 1, max_length))
            ELSE IF str_value # "" THEN Some(str_value) ELSE None

-----------------------------------------------------------------------------
(* base_etl_processor.py: the header of a column *)

(* str.replace: the occurrences of old are taken from the left, without     *)
(* overlap, in one pass; what a replacement produces is not looked at again. *)
RECURSIVE Replace(_, _, _)
Replace(s, old, new) ==
    IF Len(s) < Len(old) THEN s
    ELSE IF SubSeq(s, 1, Len(old)) = old
         THEN new \o Replace(SubSeq(s, Len(old) + 1, Len(s)), old, new)
         ELSE SubSeq(s, 1, 1) \o Replace(SubSeq(s, 2, Len(s)), old, new)

RECURSIVE StripChar(_, _)
StripChar(s, c) ==
    IF Len(s) > 0 /\ SubSeq(s, 1, 1) = c THEN StripChar(SubSeq(s, 2, Len(s)), c)
    ELSE IF Len(s) > 0 /\ SubSeq(s, Len(s), Len(s)) = c
         THEN StripChar(SubSeq(s, 1, Len(s) - 1), c)
         ELSE s

UpperCase == "ABCDEFGHIJKLMNOPQRSTUVWXYZ"
LowerCase == "abcdefghijklmnopqrstuvwxyz"

LowerChar(c) ==
    IF \E k \in 1..Len(UpperCase) : SubSeq(UpperCase, k, k) = c
    THEN LET k == CHOOSE k \in 1..Len(UpperCase) : SubSeq(UpperCase, k, k) = c
         IN SubSeq(LowerCase, k, k)
    ELSE c

RECURSIVE Lower(_)
Lower(s) ==
    IF Len(s) = 0 THEN "" ELSE LowerChar(SubSeq(s, 1, 1)) \o Lower(SubSeq(s, 2, Len(s)))

normalize_column_name(col_name) ==
    StripChar(
        Replace(Replace(Replace(Replace(Lower(Strip(col_name)), " ", "_"), "(", "_"),
                        ")", "_"), "__", "_"),
        "_")

-----------------------------------------------------------------------------
(* The files a tenant can upload.  Every cell is read as text.              *)

PORowInputs ==
    { [po_number |-> "PO1", po_line_no |-> "1", project_name |-> "IAM Tower", tax_rate |-> "10"],
      [po_number |-> " PO1", po_line_no |-> "1", project_name |-> "Orange Hub", tax_rate |-> "20%"],
      [po_number |-> "PO1", po_line_no |-> "1", project_name |-> "IAM Tower", tax_rate |-> "1000"],
      [po_number |-> "PO2", po_line_no |-> "1", project_name |-> "", tax_rate |-> "abc"],
      [po_number |-> "", po_line_no |-> "1", project_name |-> "IAM Tower", tax_rate |-> "10"] }

AcceptanceRowInputs ==
    { [acceptance_no |-> "A1", po_number |-> "PO1", po_line_no |-> "1", shipment_no |-> "1",
        requested_qty |-> "5", unit_price |-> "10", planned_completion_date |-> "2024-01-15"],
      [acceptance_no |-> "A2", po_number |-> "PO1", po_line_no |-> "1", shipment_no |-> "2",
        requested_qty |-> "5", unit_price |-> "10", planned_completion_date |-> "2024-01-15"],
      [acceptance_no |-> "A3", po_number |-> "PO1", po_line_no |-> "1", shipment_no |-> "abc",
        requested_qty |-> "5", unit_price |-> "10", planned_completion_date |-> "2024-01-15"],
      [acceptance_no |-> "", po_number |-> "PO1", po_line_no |-> "1", shipment_no |-> "1",
        requested_qty |-> "5", unit_price |-> "10", planned_completion_date |-> "2024-01-15"] }

SeqsUpTo(S, n) == UNION { [1..k -> S] : k \in 0..n }

(* project_header is the header of the project-name column as the file     *)
(* spells it.                                                               *)
CsvFile(rows) ==
    [ext |-> ".csv", size_ok |-> TRUE, readable |-> TRUE,
     project_header |-> "Project Name", rows |-> rows]

(* Besides the well-formed CSV files: a spreadsheet, a file whose content   *)
(* pandas cannot parse, a file over MAX_FILE_SIZE and a .txt file.          *)
OtherFiles ==
    { [CsvFile(<<>>) EXCEPT !.ext = ".xlsx"],
      [CsvFile(<<>>) EXCEPT !.readable = FALSE],
      [CsvFile(<<>>) EXCEPT !.size_ok = FALSE],
      [CsvFile(<<>>) EXCEPT !.ext = ".txt"] }

(* A file whose header has no column named "PO NO.": map_csv_columns fills  *)
(* po_number with None in every row.                                        *)
POFileWithoutColumn ==
    CsvFile(<<[po_number |-> NullCell, po_line_no |-> "1",
               project_name |-> "IAM Tower", tax_rate |-> "10"]>>)

AcceptanceFileWithoutColumn ==
    CsvFile(<<[acceptance_no |-> NullCell, po_number |-> "PO1",
               po_line_no |-> "1", shipment_no |-> "1", requested_qty |-> "5",
               unit_price |-> "10", planned_completion_date |-> "2024-01-15"]>>)

POFiles ==
    { CsvFile(rows) : rows \in SeqsUpTo(PORowInputs, MaxRows) }
        \cup OtherFiles \cup {POFileWithoutColumn}

AcceptanceFiles ==
    { CsvFile(rows) : rows \in SeqsUpTo(AcceptanceRowInputs, MaxRows) }
        \cup OtherFiles \cup {AcceptanceFileWithoutColumn}

ALLOWED_EXTENSIONS == {".csv", ".xlsx", ".xls"}

-----------------------------------------------------------------------------
(* The state of one worker coroutine and of the pipeline it runs *)

NoFile == [CsvFile(<<>>) EXCEPT !.ext = ""]
NoTask == [id |-> 0, type |-> "none", user_id |-> "", file |-> NoFile]
ShutdownItem == [id |-> 0, type |-> "shutdown", user_id |-> "", file |-> NoFile]

ZeroStats ==
    [total_rows |-> 0, processed_rows |-> 0, failed_rows |-> 0,
     new_records |-> 0, updated_records |-> 0]

(* What a session has written and not committed. *)
EmptyTx ==
    [pos |-> {},            \* PurchaseOrder rows inserted and flushed
     upd |-> {},            \* PurchaseOrder rows changed (new versions)
     audits |-> {},         \* POAuditLog rows added
     accts |-> {},          \* Account rows inserted and flushed
     staged |-> {},         \* row numbers of the batch marked is_processed
     unflushed_bad |-> FALSE] \* a changed PurchaseOrder the database will refuse

NoResult == [success |-> FALSE, returned |-> FALSE]

IdleWorker ==
    [pc |-> "idle", task |-> NoTask, batch_id |-> 0, stats |-> ZeroStats,
     load_success |-> FALSE, transform_success |-> FALSE,
     valid_records |-> <<>>, i |-> 1, tx |-> EmptyTx, wait_key |-> None,
     inner |-> NoResult, result |-> NoResult]

Init ==
    /\ uploads = 0
    /\ rejected = {}
    /\ temp_files = {}
    /\ task_queue = <<>>
    /\ unfinished_tasks = 0
    /\ worker = [w \in Workers |-> IdleWorker]
    /\ shutdown = "running"
    /\ next_batch = 1
    /\ po_staging = {}
    /\ purchase_orders = {}
    /\ po_audit_log = {}
    /\ accounts = {}
    /\ acceptance_staging = {}
    /\ acceptances = {}
    /\ upload_history = {}
    /\ finished = {}

Set(w, rec) == worker' = [worker EXCEPT ![w] = rec]

-----------------------------------------------------------------------------
(* routers/files.py: the upload handlers *)

(* A validation that looks at the size alone. *)
validate_file_size_only(file) == file.size_ok

validate_file(file) == file.ext \in ALLOWED_EXTENSIONS /\ file.size_ok

Enqueue(type, user_id, file) ==
    /\ shutdown = "running"
    /\ uploads < MaxUploads
    /\ uploads' = uploads + 1
    /\ IF validate_file(file)
       THEN /\ temp_files' = temp_files \cup {uploads + 1}
            /\ task_queue' = Append(task_queue,
                   [id |-> uploads + 1, type |-> type, user_id |-> user_id, file |-> file])
            /\ unfinished_tasks' = unfinished_tasks + 1
            /\ UNCHANGED rejected
       ELSE /\ rejected' = rejected \cup {uploads + 1}
            /\ UNCHANGED <<temp_files, task_queue, unfinished_tasks>>
    /\ UNCHANGED <<worker, shutdown, next_batch, finished>>
    /\ UNCHANGED db_vars

upload_file(requests) == \E r \in requests : Enqueue("po_process", r[1], r[2])

upload_acceptance_file(requests) ==
    \E r \in requests : Enqueue("acceptance_process", r[1], r[2])

-----------------------------------------------------------------------------
(* tasks.py: task_worker takes the next item *)

IsPO(w) == worker[w].task.type = "po_process"

FailedHistory(t) ==
    [user_id |-> t.user_id, file_name |-> t.id, file_type |-> "Acceptance",
     total_rows |-> 0, status |-> "failed"]

(* One batch id for every processor. *)
shared_batch_id(drawn) == 1

(* base_etl_processor.py line 32: self.batch_id = uuid.uuid4(), a value no  *)
(* earlier draw gave; here the number of the draw.                          *)
new_batch_id(drawn) == drawn

(* A queue that hands out the item put last. *)
get_position_last(queue) == Len(queue)

(* tasks.py line 14: asyncio.Queue is a deque; get() takes the item on the  *)
(* left, put() appends on the right.                                        *)
get_position(queue) == 1

(* A worker that starts the processing without awaiting it. *)
worker_at_get_unawaited(w) == worker[w].pc # "exited"

(* tasks.py lines 22-37: task_worker awaits the processing of one item and  *)
(* is back at task_queue.get() only when that has ended.                    *)
worker_at_get(w) == worker[w].pc = "idle"

(* tasks.py lines 50-56, 76-82: run_in_executor holds one thread of         *)
(* thread_pool from the start of FileService.process_*_file to its return.  *)
busy_threads == { w \in Workers : worker[w].pc \notin {"idle", "exited", "returned"} }

(* task_worker takes the next item: the sentinel ends its loop, without    *)
(* task_done.  For a file, process_user_csv / process_user_acceptance_csv   *)
(* starts on a pool thread.  SessionLocal() is outside the try block: what  *)
(* it raises reaches FileService.  What the try block raises before the     *)
(* load is caught by the function itself, which for an Acceptance file      *)
(* writes a failed record.  Otherwise the processor draws its batch_id.     *)
task_queue_get(w, exceptions) ==
    /\ worker_at_get(w)
    /\ task_queue # <<>>
    /\ task_queue' = [i \in 1..(Len(task_queue) - 1) |->
                          IF i < get_position(task_queue) THEN task_queue[i]
                          ELSE task_queue[i + 1]]
    /\ LET item == task_queue[get_position(task_queue)]
           taken == [IdleWorker EXCEPT !.task = item]
       IN IF item.type = "shutdown"
          THEN /\ Set(w, [IdleWorker EXCEPT !.pc = "exited"])
               /\ UNCHANGED <<next_batch, upload_history>>
          ELSE \E raised \in {"none"} \cup exceptions :
                 CASE raised = "none" ->
                        /\ Set(w, [taken EXCEPT !.pc = "load",
                                                !.batch_id = new_batch_id(next_batch)])
                        /\ next_batch' = next_batch + 1
                        /\ UNCHANGED upload_history
                   [] raised = "session" ->
                        /\ Set(w, [taken EXCEPT !.pc = "cleanup",
                                      !.inner = [success |-> FALSE, returned |-> FALSE]])
                        /\ UNCHANGED <<next_batch, upload_history>>
                   [] raised = "processor" ->
                        /\ Set(w, [taken EXCEPT !.pc = "cleanup",
                                      !.inner = [success |-> FALSE, returned |-> TRUE]])
                        /\ upload_history' =
                               IF item.type = "po_process" THEN upload_history
                               ELSE upload_history \cup {FailedHistory(item)}
                        /\ UNCHANGED next_batch
    /\ UNCHANGED <<uploads, rejected, temp_files, unfinished_tasks, shutdown, finished>>
    /\ UNCHANGED <<po_staging, purchase_orders, po_audit_log, accounts,
                   acceptance_staging, acceptances>>

-----------------------------------------------------------------------------
(* base_etl_processor.py: load_csv, the staging loader *)

Field(record, name, message) ==
    IF record[name] \in {"", NullCell} THEN <<[field |-> name, error |-> message]>> ELSE <<>>

validate_record_po(record) ==
    Field(record, "po_number", "PO Number is required")
        \o Field(record, "po_line_no", "PO Line Number is required")

validate_record_acceptance(record) ==
    Field(record, "acceptance_no", "Acceptance Number is required")
        \o Field(record, "po_number", "PO Number is required")
        \o Field(record, "po_line_no", "PO Line Number is required")
        \o Field(record, "shipment_no", "Shipment Number is required")

StagingMeta(user_id, batch_id, row_number, errors) ==
    [user_id |-> user_id, batch_id |-> batch_id, row_number |-> row_number,
     is_valid |-> (Len(errors) = 0), is_processed |-> FALSE,
     validation_errors |-> errors]

POStaging(user_id, batch_id, row_number, record) ==
    [meta |-> StagingMeta(user_id, batch_id, row_number, validate_record_po(record)),
     data |-> record]

AcceptanceStaging(user_id, batch_id, row_number, record) ==
    [meta |-> StagingMeta(user_id, batch_id, row_number, validate_record_acceptance(record)),
     data |-> record]

(* The widths of the staging columns, and NOT NULL on po_number and         *)
(* po_line_no of po_staging (every column of acceptance_staging is          *)
(* nullable): PostgreSQL refuses the row and the commit of the whole load   *)
(* fails.                                                                   *)
FitsPOStaging(record) ==
    /\ record.po_number # NullCell
    /\ record.po_line_no # NullCell
    /\ Len(record.po_number) <= 100
    /\ Len(record.po_line_no) <= 50
    /\ Len(record.project_name) <= 255
    /\ Len(record.tax_rate) <= 50

FitsAcceptanceStaging(record) ==
    /\ Len(record.acceptance_no) <= 100
    /\ Len(record.po_number) <= 100
    /\ Len(record.po_line_no) <= 50
    /\ Len(record.shipment_no) <= 50
    /\ Len(record.requested_qty) <= 50
    /\ Len(record.unit_price) <= 50
    /\ Len(record.planned_completion_date) <= 50

RECURSIVE RowNumbers(_, _)
RowNumbers(rows, n) ==
    IF n = 0 THEN <<>>
    ELSE RowNumbers(rows, n - 1)
            \o (IF \E r \in rows : r.meta.row_number = n THEN <<n>> ELSE <<>>)

(* The query without its batch_id condition. *)
ValidRecordsOfAnyBatch(table, user_id, batch_id) ==
    { r \in table : /\ r.meta.user_id = user_id
                    /\ r.meta.is_valid
                    /\ ~r.meta.is_processed }

(* po_processor.py lines 60-66, acceptance_processor.py lines 121-126: the  *)
(* query for the valid, unprocessed staging rows of the batch.              *)
ValidRecords(table, user_id, batch_id) ==
    { r \in table : /\ r.meta.user_id = user_id
                    /\ r.meta.batch_id = batch_id
                    /\ r.meta.is_valid
                    /\ ~r.meta.is_processed }

(* po_processor.py lines 56-68: transform_and_load fetches its rows. *)
po_transform_begin(me, table) ==
    LET valid_records ==
            RowNumbers(ValidRecords(table, me.task.user_id, me.batch_id),
                       me.stats.total_rows)
    IN [me EXCEPT !.valid_records = valid_records, !.i = 1,
                  !.pc = IF valid_records = <<>> THEN "commit" ELSE "row"]

(* A failed load whose rows stay: no rollback. *)
bulk_save_without_rollback(ok, staging_records) == staging_records

(* Lines 189-199: the rows are saved and committed together, or the session *)
(* is rolled back and none of them is kept.                                 *)
bulk_save_objects(ok, staging_records) == IF ok THEN staging_records ELSE {}

(* The row number taken from the index as it is, counting from 0. *)
row_number_from_zero(idx) == idx

(* Line 176: idx is the label iterrows gives the row, counting from 0. *)
row_number(idx) == idx + 1

(* Lines 57-68: a column of column_mapping that no normalized header names *)
(* is filled with None in every row.                                        *)
map_csv_columns(file) ==
    IF normalize_column_name(file.project_header) = "project_name"
    THEN file.rows
    ELSE [idx \in 1..Len(file.rows) |->
             IF "project_name" \in DOMAIN file.rows[idx]
             THEN [file.rows[idx] EXCEPT !.project_name = NullCell]
             ELSE file.rows[idx]]

load_csv(w) ==
    /\ worker[w].pc = "load"
    /\ \E df_mapped \in {map_csv_columns(worker[w].task.file)} :
       LET me == worker[w]
           file == [me.task.file EXCEPT !.rows = df_mapped]
           read_ok == file.ext \in {".csv", ".xlsx", ".xls"} /\ file.readable
           n == Len(file.rows)
           staging_records ==
               { IF IsPO(w)
                 THEN POStaging(me.task.user_id, me.batch_id, row_number(idx),
                                file.rows[idx + 1])
                 ELSE AcceptanceStaging(me.task.user_id, me.batch_id, row_number(idx),
                                        file.rows[idx + 1])
                 : idx \in 0..(n - 1) }
           commit_ok ==
               \A idx \in 1..n :
                   IF IsPO(w) THEN FitsPOStaging(file.rows[idx])
                   ELSE FitsAcceptanceStaging(file.rows[idx])
           counted == [me.stats EXCEPT !.total_rows = n, !.processed_rows = n]
           ok == read_ok /\ commit_ok
           after == [me EXCEPT !.stats = IF read_ok THEN counted ELSE me.stats,
                               !.load_success = ok]
       IN /\ IF IsPO(w)
             THEN po_staging' = po_staging \cup bulk_save_objects(ok, staging_records)
             ELSE UNCHANGED po_staging
          /\ IF ~IsPO(w)
             THEN acceptance_staging' =
                      acceptance_staging \cup bulk_save_objects(ok, staging_records)
             ELSE UNCHANGED acceptance_staging
          /\ Set(w, IF ok /\ IsPO(w)
                    THEN po_transform_begin(after, po_staging \cup staging_records)
                    ELSE IF ok THEN [after EXCEPT !.pc = "transform"]
                    ELSE IF IsPO(w)
                    THEN [after EXCEPT !.pc = "cleanup",
                                       !.inner = [success |-> FALSE, returned |-> TRUE]]
                    ELSE [after EXCEPT !.pc = "history"])
    /\ UNCHANGED queue_vars
    /\ UNCHANGED <<next_batch, purchase_orders, po_audit_log, accounts, acceptances,
                   upload_history, finished>>

-----------------------------------------------------------------------------
(* po_processor.py: the account classifier *)

Contains(s, sub) ==
    \E k \in 1..(Len(s) - Len(sub) + 1) : SubSeq(s, k, k + Len(sub) - 1) = sub

(* The rules tried in another order. *)
map_project_orange_first(project_name) ==
    IF project_name = "" THEN "Other"
    ELSE LET project_name_lower == Lower(project_name)
         IN IF Contains(project_name_lower, "orange") THEN "Orange Account"
            ELSE IF Contains(project_name_lower, "iam") THEN "IAM Account"
            ELSE IF Contains(project_name_lower, "inwi") THEN "INWI Account"
            ELSE "Other"

map_project_to_account_name(project_name) ==
    IF project_name = "" THEN "Other"
    ELSE LET project_name_lower == Lower(project_name)
         IN IF Contains(project_name_lower, "iam") THEN "IAM Account"
            ELSE IF Contains(project_name_lower, "orange") THEN "Orange Account"
            ELSE IF Contains(project_name_lower, "inwi") THEN "INWI Account"
            ELSE "Other"

clean_project_name(project_name) ==
    Strip(IF project_name \in {"", NullCell} THEN "Unknown Project" ELSE project_name)

(* The Account row as inserted; id is a fresh uuid4 (here the staging row   *)
(* that caused the insert).                                                 *)
new_account(user_id, staging) ==
    LET project_name == staging.data.project_name
        account_name == map_project_to_account_name(clean_project_name(project_name))
    IN [id |-> <<staging.meta.batch_id, staging.meta.row_number>>,
        user_id |-> user_id, project_name |-> clean_project_name(project_name),
        account_name |-> account_name, needs_review |-> (account_name = "Other")]

-----------------------------------------------------------------------------
(* po_processor.py: PurchaseOrder rows built from staging rows *)

create_po_from_staging(user_id, staging) ==
    [user_id |-> user_id,
     po_number |-> safe_string_truncate(staging.data.po_number, 100),
     po_line_no |-> safe_string_truncate(staging.data.po_line_no, 50),
     project_name |-> safe_string_truncate(staging.data.project_name, 255),
     tax_rate |-> parse_decimal(staging.data.tax_rate)]

(* An exception that leaves the conversion ends the row at line 126. *)
create_po_raised(staging) == parse_decimal_call(staging.data.tax_rate).raised # "none"

(* The row as the INSERT stores it: id is a fresh uuid4 (here the place the *)
(* row comes from), created_at and updated_at the server's now() (here the  *)
(* batch that inserts, and the number of updates since).                    *)
inserted_po(user_id, staging) ==
    [id |-> <<staging.meta.batch_id, staging.meta.row_number>>,
     created_at |-> staging.meta.batch_id, updated_at |-> 0]
        @@ create_po_from_staging(user_id, staging)

(* An update that copies created_at from the new object as well. *)
update_po_with_created_at(po, staging) ==
    [id |-> po.id, created_at |-> staging.meta.batch_id, updated_at |-> po.updated_at + 1]
        @@ create_po_from_staging(po.user_id, staging)

(* Every attribute create_po_from_staging sets is copied (id and created_at *)
(* are not among them), then updated_at is set to utcnow(), a later instant *)
(* than the stored one.                                                     *)
update_po_from_staging(po, staging) ==
    [id |-> po.id, created_at |-> po.created_at, updated_at |-> po.updated_at + 1]
        @@ create_po_from_staging(po.user_id, staging)

changed_fields(old_values, new_values) ==
    { k \in DOMAIN old_values : old_values[k] # new_values[k] }

POAuditLog(user_id, batch_id, po, action, changed) ==
    [user_id |-> user_id, batch_id |-> batch_id, po_number |-> po.po_number,
     po_line_no |-> po.po_line_no, action |-> action, changed_fields |-> changed,
     new_values |-> po]

(* models.py: the constraints a flush of a PurchaseOrder row can violate    *)
(* on its own: NOT NULL on po_number and po_line_no, DECIMAL(5, 2).         *)
RefusedByColumns(po) ==
    \/ po.po_number = None
    \/ po.po_line_no = None
    \/ (po.tax_rate # None /\ po.tax_rate[1] >= 1000)

(* A business key that leaves the tenant out. *)
po_key_without_tenant(po) == <<"", po.po_number, po.po_line_no>>

po_key(po) == <<po.user_id, po.po_number, po.po_line_no>>
account_key(a) == <<a.user_id, a.project_name>>

(* What a session's queries return: the committed rows and its own writes. *)
AccountsSeen(w) == accounts \cup worker[w].tx.accts

PurchaseOrdersSeen(w) ==
    LET mine == worker[w].tx
    IN { p \in purchase_orders : p.id \notin { q.id : q \in mine.upd } }
           \cup mine.upd \cup mine.pos

(* The sessions whose uncommitted insert holds a unique key. *)
(* Accounts without the constraint uq_user_project: no insert is held back. *)
AccountHoldersNoIndex(w, key) == {}

AccountHolders(w, key) ==
    { v \in Workers \ {w} : \E a \in worker[v].tx.accts : account_key(a) = key }

(* PurchaseOrders without the constraint uq_user_po_line. *)
POHoldersNoIndex(w, key) == {}

POHolders(w, key) ==
    { v \in Workers \ {w} : \E p \in worker[v].tx.pos : po_key(p) = key }

-----------------------------------------------------------------------------
(* po_processor.py: POProcessor.transform_and_load, one staging row a step *)

staging_record(w) ==
    CHOOSE r \in po_staging :
        /\ r.meta.batch_id = worker[w].batch_id
        /\ r.meta.row_number = worker[w].valid_records[worker[w].i]

NextRow(me) ==
    [me EXCEPT !.i = me.i + 1, !.wait_key = None,
               !.pc = IF me.i + 1 > Len(me.valid_records) THEN "commit" ELSE "row"]

(* Lines 122-124: the row is marked processed in the session. *)
RowDone(w, me) ==
    /\ Set(w, NextRow([me EXCEPT !.tx.staged = @ \cup {me.valid_records[me.i]}]))
    /\ UNCHANGED db_vars

(* Lines 126-133: the session is rolled back, which discards everything it  *)
(* has not committed, and the row is committed as processed and invalid.    *)
RowFailed(w, me, message) ==
    /\ Set(w, NextRow([me EXCEPT !.tx = EmptyTx]))
    /\ po_staging' =
           { IF r = staging_record(w)
             THEN [r EXCEPT !.meta.is_processed = TRUE, !.meta.is_valid = FALSE,
                            !.meta.validation_errors = <<[error |-> message]>>]
             ELSE r : r \in po_staging }
    /\ UNCHANGED <<purchase_orders, po_audit_log, accounts, acceptance_staging,
                   acceptances, upload_history>>

(* Lines 106-120: the INSERT of a new PurchaseOrder reaches the unique      *)
(* index uq_user_po_line with no other session holding the key.             *)
InsertPO(w, me) ==
    LET new_po == inserted_po(me.task.user_id, staging_record(w))
    IN IF \E p \in purchase_orders : po_key(p) = po_key(new_po)
       THEN RowFailed(w, me, "duplicate key value violates uq_user_po_line")
       ELSE RowDone(w, [me EXCEPT
                !.tx.pos = @ \cup {new_po},
                !.tx.audits = @ \cup {POAuditLog(me.task.user_id, me.batch_id,
                                                 new_po, "INSERT", {})},
                !.stats.new_records = @ + 1])

(* Lines 85-104: the existing PurchaseOrder is overwritten in the session;  *)
(* the UPDATE itself is sent by a later flush.                              *)
UpdatePO(w, me, existing_po) ==
    LET old_values == existing_po
        new_values == update_po_from_staging(existing_po, staging_record(w))
        changed == changed_fields(old_values, new_values)
        written == IF existing_po \in me.tx.pos
                   THEN [me EXCEPT !.tx.pos = (@ \ {existing_po}) \cup {new_values}]
                   ELSE [me EXCEPT !.tx.upd =
                            { q \in @ : q.id # existing_po.id } \cup {new_values}]
        logged == IF changed # {}
                  THEN [written EXCEPT
                           !.tx.audits = @ \cup {POAuditLog(me.task.user_id, me.batch_id,
                                                            new_values, "UPDATE", changed)},
                           !.stats.updated_records = @ + 1]
                  ELSE written
    IN RowDone(w, [logged EXCEPT
                      !.tx.unflushed_bad = @ \/ RefusedByColumns(new_values)])

(* Lines 75-120: look the PurchaseOrder up, then update or insert it. *)
UpsertPO(w, me) ==
    LET new_po == inserted_po(me.task.user_id, staging_record(w))
        seen == { p \in PurchaseOrdersSeen(w) : po_key(p) = po_key(new_po) }
    IN IF create_po_raised(staging_record(w))
       THEN RowFailed(w, me, parse_decimal_call(staging_record(w).data.tax_rate).raised)
       ELSE IF seen # {}
       THEN UpdatePO(w, me, CHOOSE p \in seen : TRUE)
       ELSE IF RefusedByColumns(new_po)
       THEN RowFailed(w, me, "the columns refuse the row")
       ELSE IF POHolders(w, po_key(new_po)) # {}
       THEN /\ Set(w, [me EXCEPT !.pc = "wait_po", !.wait_key = Some(po_key(new_po))])
            /\ UNCHANGED db_vars
       ELSE InsertPO(w, me)

(* Lines 174-181: the INSERT of the Account reaches uq_user_project with no *)
(* other session holding the key.                                           *)
InsertAccount(w, me) ==
    LET account == new_account(me.task.user_id, staging_record(w))
    IN IF \E a \in accounts : account_key(a) = account_key(account)
       THEN RowFailed(w, me, "duplicate key value violates uq_user_project")
       ELSE UpsertPO(w, [me EXCEPT !.tx.accts = @ \cup {account}])

(* Lines 159-181: _get_or_create_account. *)
get_or_create_account(w, me) ==
    LET account == new_account(me.task.user_id, staging_record(w))
    IN IF \E a \in AccountsSeen(w) : account_key(a) = account_key(account)
       THEN UpsertPO(w, me)
       ELSE IF AccountHolders(w, account_key(account)) # {}
       THEN /\ Set(w, [me EXCEPT !.pc = "wait_account",
                                 !.wait_key = Some(account_key(account))])
            /\ UNCHANGED db_vars
       ELSE InsertAccount(w, me)


pipeline_frame == UNCHANGED queue_vars /\ UNCHANGED <<next_batch, finished>>

(* Line 73 on: the first query of the row flushes the session, and the      *)
(* UPDATE of a row changed earlier is refused there.                        *)
po_row(w) ==
    /\ worker[w].pc = "row"
    /\ IF worker[w].tx.unflushed_bad
       THEN RowFailed(w, worker[w], "numeric field overflow")
       ELSE get_or_create_account(w, worker[w])
    /\ pipeline_frame

WaitsFor(w) ==
    IF worker[w].pc = "wait_account" THEN AccountHolders(w, worker[w].wait_key[1])
    ELSE IF worker[w].pc = "wait_po" THEN POHolders(w, worker[w].wait_key[1])
    ELSE {}

(* The session that held the key has committed or rolled back. *)
po_resume_account(w) ==
    /\ worker[w].pc = "wait_account"
    /\ WaitsFor(w) = {}
    /\ InsertAccount(w, worker[w])
    /\ pipeline_frame

po_resume_insert(w) ==
    /\ worker[w].pc = "wait_po"
    /\ WaitsFor(w) = {}
    /\ InsertPO(w, worker[w])
    /\ pipeline_frame

(* Two sessions wait for each other: PostgreSQL aborts the statement of one. *)
po_deadlock(w) ==
    /\ \E v \in WaitsFor(w) : w \in WaitsFor(v)
    /\ RowFailed(w, worker[w], "deadlock detected")
    /\ pipeline_frame

(* Lines 135-142 and process_user_csv lines 267-279: the final commit. *)
po_commit(w) ==
    /\ worker[w].pc = "commit"
    /\ LET me == worker[w]
           tx == me.tx
           ok == ~tx.unflushed_bad
           returns == [me EXCEPT !.tx = EmptyTx, !.transform_success = ok,
                                 !.pc = "cleanup",
                                 !.inner = [success |-> ok, returned |-> TRUE]]
       IN /\ Set(w, returns)
          /\ IF ok
             THEN /\ purchase_orders' =
                         { p \in purchase_orders : p.id \notin { q.id : q \in tx.upd } }
                             \cup tx.upd \cup tx.pos
                  /\ po_audit_log' = po_audit_log \cup tx.audits
                  /\ accounts' = accounts \cup tx.accts
                  /\ po_staging' =
                         { IF r.meta.batch_id = me.batch_id /\ r.meta.row_number \in tx.staged
                           THEN [r EXCEPT !.meta.is_processed = TRUE]
                           ELSE r : r \in po_staging }
             ELSE UNCHANGED <<purchase_orders, po_audit_log, accounts, po_staging>>
    /\ UNCHANGED <<acceptance_staging, acceptances, upload_history>>
    /\ pipeline_frame

-----------------------------------------------------------------------------
(* acceptance_processor.py: AcceptanceProcessor.transform_and_load *)

create_acceptance_from_staging(user_id, staging) ==
    [id |-> <<staging.meta.batch_id, staging.meta.row_number>>,
     user_id |-> user_id,
     acceptance_no |-> safe_string_truncate(staging.data.acceptance_no, 100),
     po_number |-> safe_string_truncate(staging.data.po_number, 100),
     po_line_no |-> safe_string_truncate(staging.data.po_line_no, 50),
     shipment_no |-> parse_integer(staging.data.shipment_no),
     requested_qty |-> parse_integer(staging.data.requested_qty),
     unit_price |-> parse_decimal(staging.data.unit_price),
     planned_completion_date |-> parse_date(staging.data.planned_completion_date)]

(* An exception that leaves one of the conversions ends the row at line 138. *)
create_acceptance_raised(staging) ==
    \/ parse_integer_call(staging.data.shipment_no).raised # "none"
    \/ parse_integer_call(staging.data.requested_qty).raised # "none"
    \/ parse_decimal_call(staging.data.unit_price).raised # "none"
    \/ parse_date_call(staging.data.planned_completion_date).raised # "none"

(* models.py: the four NOT NULL columns of acceptances. *)
RefusedByAcceptance(a) ==
    \/ a.acceptance_no = None
    \/ a.po_number = None
    \/ a.po_line_no = None
    \/ a.shipment_no = None

(* A delete without its filter. *)
delete_every_acceptance(table, user_id) == {}

(* Lines 114-116: query(Acceptance).filter(user_id == user_uuid).delete().  *)
delete_acceptances(table, user_id) == { a \in table : a.user_id # user_id }

(* Lines 112-118: the tenant's rows are deleted and the deletion committed. *)
acceptance_delete(w) ==
    /\ worker[w].pc = "transform"
    /\ acceptances' = delete_acceptances(acceptances, worker[w].task.user_id)
    /\ Set(w, [worker[w] EXCEPT !.pc = "insert"])
    /\ UNCHANGED <<po_staging, purchase_orders, po_audit_log, accounts,
                   acceptance_staging, upload_history>>
    /\ pipeline_frame

(* Lines 120-149: the rows of the batch are added and committed together. *)
acceptance_insert(w) ==
    /\ worker[w].pc = "insert"
    /\ LET me == worker[w]
           valid_records == ValidRecords(acceptance_staging, me.task.user_id, me.batch_id)
           created == { r \in valid_records : ~create_acceptance_raised(r) }
           added == { create_acceptance_from_staging(me.task.user_id, r) : r \in created }
           ok == \A a \in added : ~RefusedByAcceptance(a)
       IN /\ acceptances' = IF ok THEN acceptances \cup added ELSE acceptances
          /\ Set(w, [me EXCEPT !.pc = "history", !.transform_success = ok,
                               !.stats.new_records = @ + Cardinality(created)])
    /\ UNCHANGED <<po_staging, purchase_orders, po_audit_log, accounts,
                   acceptance_staging, upload_history>>
    /\ pipeline_frame

(* process_user_acceptance_csv lines 224-254: the upload history record. *)
(* A status that knows success and failure only. *)
upload_status_without_partial(me) ==
    IF me.load_success /\ me.transform_success THEN "success" ELSE "failed"

upload_status(me) ==
    IF me.load_success /\ me.transform_success THEN "success"
    ELSE IF me.stats.processed_rows > 0 THEN "partial"
    ELSE "failed"

acceptance_history(w) ==
    /\ worker[w].pc = "history"
    /\ LET me == worker[w]
       IN /\ upload_history' = upload_history \cup
                 {[user_id |-> me.task.user_id, file_name |-> me.task.id,
                   file_type |-> "Acceptance", total_rows |-> me.stats.total_rows,
                   status |-> upload_status(me)]}
          /\ Set(w, [me EXCEPT !.pc = "cleanup",
                        !.inner = [success |-> me.load_success /\ me.transform_success,
                                   returned |-> TRUE]])
    /\ UNCHANGED <<po_staging, purchase_orders, po_audit_log, accounts,
                   acceptance_staging, acceptances>>
    /\ pipeline_frame

-----------------------------------------------------------------------------
(* file_service.py: process_po_file / process_acceptance_file return *)

(* A cleanup that leaves the file where it is. *)
cleanup_temp_file_kept(files, file_path) == files

cleanup_temp_file(files, file_path) == files \ {file_path}

(* The dict built after process_user_csv returned says success whatever     *)
(* that function reported; only an exception gives success = false.         *)
file_service_result(inner) ==
    IF inner.returned THEN [success |-> TRUE, returned |-> TRUE]
    ELSE [success |-> FALSE, returned |-> TRUE]

file_service_return(w) ==
    /\ worker[w].pc = "cleanup"
    /\ temp_files' = cleanup_temp_file(temp_files, worker[w].task.id)
    /\ Set(w, [worker[w] EXCEPT !.pc = "returned",
                                !.result = file_service_result(worker[w].inner)])
    /\ UNCHANGED <<uploads, rejected, task_queue, unfinished_tasks, shutdown,
                   next_batch, finished>>
    /\ UNCHANGED db_vars

(* tasks.py lines 37 and 58-63: the coroutine resumes and marks the item. *)
task_done(w) ==
    /\ worker[w].pc = "returned"
    /\ unfinished_tasks' = unfinished_tasks - 1
    /\ finished' = finished \cup
           {[id |-> worker[w].task.id, type |-> worker[w].task.type,
             user_id |-> worker[w].task.user_id, batch_id |-> worker[w].batch_id,
             success |-> worker[w].result.success,
             load_success |-> worker[w].load_success,
             transform_success |-> worker[w].transform_success,
             stats |-> worker[w].stats]}
    /\ Set(w, IdleWorker)
    /\ UNCHANGED <<uploads, rejected, temp_files, task_queue, shutdown, next_batch>>
    /\ UNCHANGED db_vars

-----------------------------------------------------------------------------
(* main.py: shutdown_event *)

RECURSIVE Sentinels(_)
Sentinels(n) == IF n = 0 THEN <<>> ELSE <<ShutdownItem>> \o Sentinels(n - 1)

(* Lines 156-157: one sentinel for each worker of task_workers. *)
shutdown_signal ==
    /\ shutdown = "running"
    /\ task_queue' = task_queue \o Sentinels(NumWorkers)
    /\ unfinished_tasks' = unfinished_tasks + NumWorkers
    /\ shutdown' = "join"
    /\ UNCHANGED <<uploads, rejected, temp_files, worker, next_batch, finished>>
    /\ UNCHANGED db_vars

(* Line 161: task_queue.join() returns when no put item is left undone. *)
JoinReturnsAtOnce == TRUE

JoinReturns == unfinished_tasks = 0

(* Lines 161-173: past the join, the workers are cancelled and gathered and *)
(* the pool is shut down.                                                  *)
shutdown_join ==
    /\ shutdown = "join"
    /\ JoinReturns
    /\ shutdown' = "cancel"
    /\ UNCHANGED <<uploads, rejected, temp_files, task_queue, unfinished_tasks,
                   worker, next_batch, finished>>
    /\ UNCHANGED db_vars

-----------------------------------------------------------------------------
(* The program *)

Exceptions == {"session", "processor"}

POStep(w) ==
    \/ po_row(w)
    \/ po_resume_account(w)
    \/ po_resume_insert(w)
    \/ po_deadlock(w)
    \/ po_commit(w)

AcceptanceStep(w) ==
    \/ acceptance_delete(w)
    \/ acceptance_insert(w)
    \/ acceptance_history(w)

TaskStep(w) ==
    \/ load_csv(w)
    \/ file_service_return(w)
    \/ task_done(w)

(* The PO pipeline alone: every file of up to MaxRows rows for one tenant,  *)
(* one file for another tenant.                                             *)
PORequests ==
    { <<"t1", f>> : f \in POFiles \ { x \in OtherFiles : x.readable } } \cup
    { <<"t2", CsvFile(<<r>>)>> : r \in { x \in PORowInputs : x.tax_rate = "10" /\ x.po_number = "PO1" } }

NextPO ==
    \/ upload_file(PORequests)
    \/ \E w \in Workers : task_queue_get(w, {}) \/ TaskStep(w) \/ POStep(w)

SpecPO == Init /\ [][NextPO]_vars

(* The Acceptance pipeline alone, likewise. *)
AcceptanceRequests ==
    { <<"t1", f>> : f \in AcceptanceFiles \ { x \in OtherFiles : x.readable } } \cup
    { <<"t2", CsvFile(<<r>>)>> : r \in { x \in AcceptanceRowInputs : x.acceptance_no = "A1" } }

NextAcceptance ==
    \/ upload_acceptance_file(AcceptanceRequests)
    \/ \E w \in Workers : task_queue_get(w, {}) \/ TaskStep(w) \/ AcceptanceStep(w)

SpecAcceptance == Init /\ [][NextAcceptance]_vars

(* The whole program, on the files that take every path through it. *)
PORow(po_number, tax_rate) ==
    CHOOSE r \in PORowInputs : r.po_number = po_number /\ r.tax_rate = tax_rate

AcceptanceRow(acceptance_no) ==
    CHOOSE r \in AcceptanceRowInputs : r.acceptance_no = acceptance_no

ProgramPORequests ==
    { <<"t1", f>> : f \in OtherFiles \cup
        { POFileWithoutColumn,
          CsvFile(<<PORow("PO1", "10")>>),
          CsvFile(<<PORow(" PO1", "20%")>>),
          CsvFile(<<PORow("PO1", "10"), PORow("PO2", "abc")>>),
          CsvFile(<<PORow("PO2", "abc"), PORow("PO1", "10")>>),
          CsvFile(<<PORow("PO2", "abc"), PORow("PO1", "1000")>>),
          CsvFile(<<PORow("PO1", "10"), PORow("PO1", "1000")>>) } }

ProgramAcceptanceRequests ==
    { <<"t1", f>> : f \in OtherFiles \cup
        { CsvFile(<<AcceptanceRow("A1")>>),
          CsvFile(<<AcceptanceRow("A2"), AcceptanceRow("")>>),
          CsvFile(<<AcceptanceRow("A2"), AcceptanceRow("A3")>>) } }

Next ==
    \/ upload_file(ProgramPORequests)
    \/ upload_acceptance_file(ProgramAcceptanceRequests)
    \/ shutdown_signal
    \/ \E w \in Workers :
          task_queue_get(w, Exceptions) \/ TaskStep(w) \/ POStep(w) \/ AcceptanceStep(w)

Spec == Init /\ [][Next]_vars

(* FileService.process_po_file and process_acceptance_file take any path:   *)
(* the program started with one task whose file was not put there by an     *)
(* upload handler, under any extension.                                     *)
DirectTasks ==
    { [id |-> 1, type |-> "po_process", user_id |-> r[1], file |-> [r[2] EXCEPT !.ext = e]]
          : r \in ProgramPORequests, e \in {".csv", ".txt"} }
    \cup
    { [id |-> 1, type |-> "acceptance_process", user_id |-> r[1],
       file |-> [r[2] EXCEPT !.ext = e]]
          : r \in ProgramAcceptanceRequests, e \in {".csv", ".txt"} }

InitDirect ==
    /\ uploads = 1
    /\ rejected = {}
    /\ temp_files = {1}
    /\ task_queue \in { <<t>> : t \in DirectTasks }
    /\ unfinished_tasks = 1
    /\ worker = [w \in Workers |-> IdleWorker]
    /\ shutdown = "running"
    /\ next_batch = 1
    /\ po_staging = {}
    /\ purchase_orders = {}
    /\ po_audit_log = {}
    /\ accounts = {}
    /\ acceptance_staging = {}
    /\ acceptances = {}
    /\ upload_history = {}
    /\ finished = {}

SpecDirect == InitDirect /\ [][Next]_vars

(* The conversions on every kind of cell: one Acceptance row whose quantity, *)
(* price and date cells all hold the same text.                             *)
CoercionInputs ==
    { "", " ", NullCell, "abc", "12", " 7 ", "1,000", "50%", "inf", "nan",
      "2024-01-15", "15/01/2024", "31/02/2024", "2024-01-15 10:30:00", "1/2/2024 9:05" }

CoercionRequests ==
    { <<"t1", CsvFile(<<[acceptance_no |-> "A1", po_number |-> "PO1", po_line_no |-> "1",
                         shipment_no |-> "1", requested_qty |-> s, unit_price |-> s,
                         planned_completion_date |-> s]>>)>> : s \in CoercionInputs }

NextCoercion ==
    \/ upload_acceptance_file(CoercionRequests)
    \/ \E w \in Workers : task_queue_get(w, {}) \/ TaskStep(w) \/ AcceptanceStep(w)

SpecCoercion == Init /\ [][NextCoercion]_vars

(* The PO pipeline on project names of every class: one-row files for the   *)
(* same purchase order line, and two files that hold two lines in opposite  *)
(* orders.                                                                  *)
ProjectInputs ==
    { "", " ", "IAM Tower", "Orange IAM", "inwi orange", "Inwi Net", "William",
      "ORANGE", "Maroc Telecom", " I AM " }

ProjectRow(po_number, project_name) ==
    [po_number |-> po_number, po_line_no |-> "1", project_name |-> project_name,
     tax_rate |-> "10"]

ClassificationRequests ==
    { <<"t1", CsvFile(<<ProjectRow("PO1", p)>>)>> : p \in ProjectInputs } \cup
    { <<"t1", CsvFile(<<ProjectRow("PO1", "Orange IAM"), ProjectRow("PO2", "inwi orange")>>)>>,
      <<"t1", CsvFile(<<ProjectRow("PO2", "inwi orange"), ProjectRow("PO1", "Orange IAM")>>)>> }

NextClassification ==
    \/ upload_file(ClassificationRequests)
    \/ \E w \in Workers : task_queue_get(w, {}) \/ TaskStep(w) \/ POStep(w)

SpecClassification == Init /\ [][NextClassification]_vars

(* Two tenants: PO and Acceptance files of t1 and of t2 that hold the same   *)
(* business keys, valid and invalid rows, processed by the two workers.     *)
TenantPORequests ==
    { <<"t1", CsvFile(<<PORow("PO1", "10"), PORow(" PO1", "20%")>>)>>,
      <<"t1", CsvFile(<<PORow(" PO1", "20%"), PORow("PO1", "10")>>)>>,
      <<"t1", CsvFile(<<PORow("", "10"), PORow("PO1", "10")>>)>>,
      <<"t2", CsvFile(<<PORow("PO1", "10")>>)>>,
      <<"t2", CsvFile(<<PORow("PO1", "1000"), PORow("", "10")>>)>> }

TenantAcceptanceRequests ==
    { <<"t1", CsvFile(<<AcceptanceRow("A1")>>)>>,
      <<"t1", CsvFile(<<AcceptanceRow("A2"), AcceptanceRow("")>>)>>,
      <<"t2", CsvFile(<<AcceptanceRow("A1")>>)>>,
      <<"t2", CsvFile(<<AcceptanceRow(""), AcceptanceRow("A3")>>)>> }

NextTenants ==
    \/ upload_file(TenantPORequests)
    \/ upload_acceptance_file(TenantAcceptanceRequests)
    \/ \E w \in Workers :
          task_queue_get(w, {}) \/ TaskStep(w) \/ POStep(w) \/ AcceptanceStep(w)

SpecTenants == Init /\ [][NextTenants]_vars

(* The PO pipeline on files whose project-name column has headers over      *)
(* letters, spaces, parentheses and underscores.                            *)
HeaderInputs ==
    { "Project Name", "project_name", " Project Name ", "Project  Name",
      "Project   Name", "Project (Name)", "(Project) Name", "Project_ _Name",
      "Project ((Name))", "____", "Project Code" }

HeaderRequests ==
    { <<"t1", [CsvFile(<<ProjectRow("PO1", "Orange IAM")>>) EXCEPT !.project_header = h]>>
          : h \in HeaderInputs } \cup
    { <<"t1", CsvFile(<<ProjectRow("PO1", "Orange IAM"), ProjectRow("PO2", "inwi orange")>>)>>,
      <<"t1", CsvFile(<<ProjectRow("PO2", "inwi orange"), ProjectRow("PO1", "Orange IAM")>>)>> }

NextHeaders ==
    \/ upload_file(HeaderRequests)
    \/ \E w \in Workers : task_queue_get(w, {}) \/ TaskStep(w) \/ POStep(w)

SpecHeaders == Init /\ [][NextHeaders]_vars

-----------------------------------------------------------------------------
(* Properties of PO reconciliation *)

StagingKey(r) ==
    <<r.meta.user_id, safe_string_truncate(r.data.po_number, 100),
      safe_string_truncate(r.data.po_line_no, 50)>>

(* The row's upsert raised: lines 129-130 leave it processed and invalid. *)
RowRaised(r) == r.meta.is_processed /\ ~r.meta.is_valid

(* The row's PurchaseOrder and its audit entry are in the committed tables. *)
RowCommitted(r) ==
    /\ r.meta.is_processed
    /\ \E p \in purchase_orders : po_key(p) = StagingKey(r)
    /\ \E a \in po_audit_log :
          /\ a.batch_id = r.meta.batch_id
          /\ <<a.user_id, a.po_number, a.po_line_no>> = StagingKey(r)

BatchRows(table, batch_id) == { r \in table : r.meta.batch_id = batch_id }

(* C1: row isolation.  When a PO batch in which the upsert of a row raised  *)
(* has been reconciled, every other valid row of the batch has its          *)
(* PurchaseOrder and its audit entry committed.                             *)
C1_RowIsolation ==
    \A d \in finished :
        (d.type = "po_process" /\ \E r \in BatchRows(po_staging, d.batch_id) : RowRaised(r))
            => \A r \in BatchRows(po_staging, d.batch_id) :
                   r.meta.is_valid => RowCommitted(r)

BusinessFields == {"po_number", "po_line_no", "project_name", "tax_rate"}

(* C2: an update in which no field of the file changed is not logged: every *)
(* UPDATE entry of the audit log names a business field that changed, and a *)
(* batch counts no more updates than it logged.                             *)
C2_UnchangedNotLogged ==
    /\ \A a \in po_audit_log :
          a.action = "UPDATE" => a.changed_fields \cap BusinessFields # {}
    /\ \A d \in finished :
          (d.type = "po_process" /\ d.transform_success) =>
              d.stats.updated_records <=
                  Cardinality({ a \in po_audit_log :
                                  /\ a.batch_id = d.batch_id
                                  /\ a.action = "UPDATE"
                                  /\ a.changed_fields \cap BusinessFields # {} })

(* Every PurchaseOrder row the unique index holds: committed or flushed. *)
IndexedPurchaseOrders ==
    purchase_orders \cup UNION { worker[w].tx.pos : w \in Workers }

(* C7: no two PurchaseOrder rows have the same (tenant, po_number,          *)
(* po_line_no), also while two workers reconcile files of one tenant.       *)
C7_BusinessKeyUnique ==
    \A p, q \in IndexedPurchaseOrders : po_key(p) = po_key(q) => p.id = q.id

(* Two sessions met on one key: a row was refused by uq_user_po_line. *)
C7_Witness ==
    /\ \E r \in po_staging :
          /\ RowRaised(r)
          /\ r.meta.validation_errors = <<[error |-> "duplicate key value violates uq_user_po_line"]>>
    /\ purchase_orders # {}

IndexedAccounts == accounts \cup UNION { worker[w].tx.accts : w \in Workers }

(* C8: there is at most one Account per (tenant, project name), and no step *)
(* removes or changes a committed Account: a call for a pair that has an    *)
(* Account adds nothing and leaves account_name and needs_review alone.     *)
C8_AccountIdempotent ==
    [][ /\ \A a \in accounts : a \in accounts'
        /\ \A a, b \in IndexedAccounts' : account_key(a) = account_key(b) => a = b ]_vars

(* Two batches of one tenant named the same project, both were reconciled,  *)
(* and the tenant has the Account.                                          *)
C8_Witness ==
    \E r1, r2 \in po_staging :
        /\ r1.meta.batch_id # r2.meta.batch_id
        /\ r1.meta.user_id = r2.meta.user_id
        /\ clean_project_name(r1.data.project_name) = clean_project_name(r2.data.project_name)
        /\ r1.meta.is_processed /\ r1.meta.is_valid
        /\ r2.meta.is_processed /\ r2.meta.is_valid
        /\ \E a \in accounts :
              account_key(a) = <<r1.meta.user_id, clean_project_name(r1.data.project_name)>>

-----------------------------------------------------------------------------
(* Properties of Acceptance reconciliation *)

TenantAcceptances(table, user_id) == { a \in table : a.user_id = user_id }

BatchAcceptances(user_id, batch_id) ==
    { create_acceptance_from_staging(user_id, r) :
          r \in ValidRecords(acceptance_staging, user_id, batch_id) }

(* C3: full replace.  When transform_and_load of a batch with M valid rows  *)
(* returns true, the tenant's Acceptance rows are exactly the M rows built  *)
(* from that batch.                                                         *)
C3_FullReplace ==
    [][ \A w \in Workers :
          ( /\ worker[w].pc = "insert"
            /\ worker'[w].pc = "history"
            /\ worker'[w].transform_success )
          => LET user_id == worker[w].task.user_id
                 batch == BatchAcceptances(user_id, worker[w].batch_id)
             IN /\ TenantAcceptances(acceptances', user_id) = batch
                /\ Cardinality(batch) =
                       Cardinality(ValidRecords(acceptance_staging, user_id,
                                                worker[w].batch_id)) ]_vars

AcceptanceTasksLeft(user_id) ==
    \/ \E i \in 1..Len(task_queue) :
          task_queue[i].type = "acceptance_process" /\ task_queue[i].user_id = user_id
    \/ \E w \in Workers :
          worker[w].task.type = "acceptance_process" /\ worker[w].task.user_id = user_id

(* C4: two Acceptance files of one tenant uploaded one after the other and  *)
(* both reconciled: once the tenant has no task left, its Acceptance rows   *)
(* are exactly those of the file uploaded last.                             *)
C4_SecondFileWins ==
    \A d1, d2 \in finished :
        ( /\ d1.type = "acceptance_process" /\ d2.type = "acceptance_process"
          /\ d1.user_id = d2.user_id
          /\ d1.id < d2.id
          /\ d1.load_success /\ d1.transform_success
          /\ d2.load_success /\ d2.transform_success
          /\ \A d \in finished :
                (d.type = "acceptance_process" /\ d.user_id = d2.user_id) => d.id <= d2.id
          /\ ~AcceptanceTasksLeft(d2.user_id) )
        => TenantAcceptances(acceptances, d2.user_id) =
               BatchAcceptances(d2.user_id, d2.batch_id)

-----------------------------------------------------------------------------
(* Properties of the task pipeline *)

(* C5: every file-processing task a worker ran, PO or Acceptance, whatever  *)
(* its outcome, has exactly one UploadHistory row.                          *)
C5_OneHistoryRow ==
    \A d \in finished :
        Cardinality({ h \in upload_history : h.file_name = d.id }) = 1

Drained ==
    /\ task_queue = <<>>
    /\ \A w \in Workers : worker[w].pc \in {"idle", "exited"}

(* C6: graceful shutdown terminates.  Once the sentinels are pushed and     *)
(* every queued and running task has finished, task_queue.join() returns.   *)
C6_JoinReturns == (shutdown = "join" /\ Drained) => JoinReturns

Loaded(w) == worker[w].batch_id # 0 /\ worker[w].pc # "load"

(* C10: an upload whose extension is not allowed is rejected by the handler *)
(* with no temp file saved and no task enqueued, and load_csv on a path     *)
(* with such an extension returns false and leaves no staging row of its    *)
(* batch.                                                                   *)
C10_UnsupportedExtension ==
    [][ /\ uploads' # uploads =>
              /\ rejected' # rejected =>
                    UNCHANGED <<temp_files, task_queue, unfinished_tasks>>
              /\ task_queue' # task_queue =>
                    task_queue'[Len(task_queue')].file.ext \in {".csv", ".xlsx", ".xls"}
        /\ \A w \in Workers :
              (Loaded(w)' /\ worker'[w].task.file.ext \notin {".csv", ".xlsx", ".xls"})
              => /\ ~worker'[w].load_success
                 /\ BatchRows(po_staging', worker'[w].batch_id) = {}
                 /\ BatchRows(acceptance_staging', worker'[w].batch_id) = {} ]_vars

(* A .txt upload was rejected, and load_csv has run on a .txt path that     *)
(* holds rows.                                                              *)
C10_Witness ==
    /\ rejected # {}
    /\ \E w \in Workers :
          /\ Loaded(w)
          /\ worker[w].task.file.ext = ".txt"
          /\ worker[w].task.file.rows # <<>>
          /\ ~worker[w].load_success

-----------------------------------------------------------------------------
(* Properties of the loader *)

CanBeRead(file) == file.ext \in {".csv", ".xlsx", ".xls"} /\ file.readable

StagingOf(w) == IF IsPO(w) THEN po_staging ELSE acceptance_staging

ValidationOf(w, record) ==
    IF IsPO(w) THEN validate_record_po(record) ELSE validate_record_acceptance(record)

StagingKeys ==
    { <<"po", r.meta.batch_id, r.meta.row_number>> : r \in po_staging } \cup
    { <<"acceptance", r.meta.batch_id, r.meta.row_number>> : r \in acceptance_staging }

(* C12: all-or-nothing staging.  Staging rows appear only in the step in    *)
(* which a load_csv returns true, all rows of its file at once; after a     *)
(* load_csv that returned false no staging row carries its batch id.        *)
C12_AllOrNothing ==
    [][ /\ StagingKeys' # StagingKeys =>
              \E w \in Workers :
                  /\ worker[w].pc = "load"
                  /\ worker'[w].load_success
                  /\ StagingKeys' \ StagingKeys =
                         { <<IF IsPO(w) THEN "po" ELSE "acceptance", worker[w].batch_id, k>> :
                               k \in 1..Len(worker[w].task.file.rows) }
        /\ \A w \in Workers :
              (Loaded(w)' /\ ~worker'[w].load_success) =>
                  /\ BatchRows(po_staging', worker'[w].batch_id) = {}
                  /\ BatchRows(acceptance_staging', worker'[w].batch_id) = {} ]_vars

(* A load of a file with rows has returned false at the commit, next to the *)
(* committed rows of another load.                                          *)
C12_Witness ==
    /\ \E w \in Workers :
          /\ Loaded(w)
          /\ ~worker[w].load_success
          /\ CanBeRead(worker[w].task.file)
          /\ worker[w].task.file.rows # <<>>
    /\ \E r1, r2 \in po_staging :
          r1.meta.batch_id = r2.meta.batch_id /\ r1.meta.row_number # r2.meta.row_number

(* The file a batch was loaded from, while its task is with a worker. *)
SourceRows(batch_id) ==
    worker[CHOOSE w \in Workers : worker[w].batch_id = batch_id].task.file.rows

InFlight == { worker[w].batch_id : w \in Workers } \ {0}

(* C13: row-number fidelity.  Every staging row has the 1-based position of *)
(* its source row in the file as row_number, whatever the validity of the   *)
(* rows before it.                                                          *)
C13_RowNumberFidelity ==
    \A table \in {po_staging, acceptance_staging} : \A r \in table :
        r.meta.batch_id \in InFlight =>
            /\ r.meta.row_number \in 1..Len(SourceRows(r.meta.batch_id))
            /\ r.data = SourceRows(r.meta.batch_id)[r.meta.row_number]

(* A valid row was staged as row 2 behind a row that failed validation. *)
C13_Witness ==
    \E r1, r2 \in po_staging :
        /\ r1.meta.batch_id = r2.meta.batch_id
        /\ r1.meta.batch_id \in InFlight
        /\ r1.meta.row_number = 1 /\ validate_record_po(r1.data) # <<>>
        /\ r2.meta.row_number = 2 /\ validate_record_po(r2.data) = <<>>
        /\ r1.data # r2.data

-----------------------------------------------------------------------------
(* Properties of the upload history *)

HistoryOf(d) == { h \in upload_history : h.file_name = d.id }

(* C14: the status of an UploadHistory row is 'success' exactly when load   *)
(* and reconciliation both returned true, otherwise 'partial' when          *)
(* processed_rows > 0, otherwise 'failed'; a pipeline that raised has       *)
(* 'failed' with total_rows 0.                                              *)
C14_UploadStatus ==
    \A d \in finished : \A h \in HistoryOf(d) :
        IF d.batch_id = 0
        THEN h.status = "failed" /\ h.total_rows = 0
        ELSE /\ h.status = "success" <=> (d.load_success /\ d.transform_success)
             /\ h.status = "partial" <=>
                    (~(d.load_success /\ d.transform_success) /\ d.stats.processed_rows > 0)
             /\ h.status = "failed" <=>
                    (~(d.load_success /\ d.transform_success) /\ d.stats.processed_rows = 0)
             /\ h.total_rows = d.stats.total_rows

(* One upload ended 'partial' and another raised and ended 'failed'. *)
C14_Witness ==
    \E d1, d2 \in finished :
        /\ d1.batch_id # 0 /\ \E h \in HistoryOf(d1) : h.status = "partial"
        /\ d2.batch_id = 0 /\ \E h \in HistoryOf(d2) : h.status = "failed"

-----------------------------------------------------------------------------
(* Properties of the conversions *)

Blank(s) == s = NullCell \/ Strip(s) = ""

(* The row of the batch was built into an Acceptance: none was skipped. *)
Built(r) == \E a \in acceptances : a.id = <<r.meta.batch_id, r.meta.row_number>>

(* C15: coercion totality.  On the cells of every row that reaches the      *)
(* conversions, parse_integer, parse_decimal and parse_date raise nothing,  *)
(* and they return None on a blank cell, a null and text that is no number  *)
(* and no date.                                                             *)
C15_CoercionTotal ==
    \A r \in acceptance_staging :
        LET quantity == parse_integer_call(r.data.requested_qty)
            price == parse_decimal_call(r.data.unit_price)
            date == parse_date_call(r.data.planned_completion_date)
        IN /\ quantity.raised = "none"
           /\ price.raised = "none"
           /\ date.raised = "none"
           /\ (Blank(r.data.requested_qty) \/ r.data.requested_qty = "abc")
                 => quantity.value = None
           /\ (Blank(r.data.unit_price) \/ r.data.unit_price = "abc")
                 => price.value = None
           /\ (Blank(r.data.planned_completion_date)
                   \/ r.data.planned_completion_date \in {"abc", "31/02/2024"})
                 => date.value = None

(* A row with text that is no number and no date was built into an         *)
(* Acceptance with None in the three columns, and a row with an infinity    *)
(* was staged.                                                              *)
C15_Witness ==
    \E r1, r2 \in acceptance_staging :
        /\ r1.data.unit_price = "abc" /\ Built(r1)
        /\ r2.data.requested_qty = "inf"
        /\ \A a \in acceptances :
              /\ a.requested_qty = None
              /\ a.unit_price = None
              /\ a.planned_completion_date = None

-----------------------------------------------------------------------------
(* Properties of the task queue *)

Started ==
    { worker[w].task.id : w \in Workers } \cup { d.id : d \in finished }

(* C16: FIFO start order.  Task ids count the uploads in the order they     *)
(* were enqueued: no file task is still queued while a task enqueued after  *)
(* it has been taken by a worker.                                           *)
C16_FifoStart ==
    \A i \in 1..Len(task_queue) :
        task_queue[i].type # "shutdown" =>
            \A id \in Started : id < task_queue[i].id

(* Two tasks were enqueued and the two workers hold one each. *)
C16_Witness ==
    \E w1, w2 \in Workers :
        /\ worker[w1].task.id # 0
        /\ worker[w2].task.id > worker[w1].task.id
        /\ worker[w1].pc # "returned"

-----------------------------------------------------------------------------
(* Properties of the batch identifier *)

(* The invocations of load_csv so far: the task and the batch id it drew. *)
Attempts ==
    { [id |-> worker[w].task.id, user_id |-> worker[w].task.user_id,
       batch_id |-> worker[w].batch_id] : w \in { v \in Workers : worker[v].batch_id # 0 } }
    \cup
    { [id |-> d.id, user_id |-> d.user_id, batch_id |-> d.batch_id] :
          d \in { e \in finished : e.batch_id # 0 } }

StagedBatches ==
    { <<r.meta.batch_id, r.meta.user_id>> : r \in po_staging } \cup
    { <<r.meta.batch_id, r.meta.user_id>> : r \in acceptance_staging }

(* C17: each invocation of load_csv has a batch id of its own, and every    *)
(* staging row carries the batch id of exactly one upload attempt.          *)
C17_FreshBatchId ==
    /\ \A a, b \in Attempts : a.batch_id = b.batch_id => a.id = b.id
    /\ \A s \in StagedBatches :
          /\ Cardinality({ a \in Attempts : a.batch_id = s[1] }) = 1
          /\ \A a \in Attempts : a.batch_id = s[1] => a.user_id = s[2]

(* Two loads have staged rows. *)
C17_Witness ==
    /\ Cardinality({ s[1] : s \in StagedBatches }) = 2
    /\ Cardinality(Attempts) = 2

-----------------------------------------------------------------------------
(* Properties of the outcome of a reconciliation *)

(* C18: terminal state of a PO staging row.  When transform_and_load has    *)
(* returned true, every row of the batch that passed validation is          *)
(* committed with is_processed = true: with is_valid = true after an upsert *)
(* that succeeded, and with is_valid = false and the exception message      *)
(* after one that raised.                                                   *)
C18_TerminalState ==
    \A d \in finished :
        (d.type = "po_process" /\ d.transform_success) =>
            \A r \in BatchRows(po_staging, d.batch_id) :
                validate_record_po(r.data) = <<>> =>
                    /\ r.meta.is_processed
                    /\ IF r.meta.is_valid
                       THEN r.meta.validation_errors = <<>>
                       ELSE /\ Len(r.meta.validation_errors) = 1
                            /\ DOMAIN r.meta.validation_errors[1] = {"error"}


(* C19: Acceptance reconciliation commits once.  The tenant's prior rows    *)
(* leave the committed table only in the step that commits the rows of the  *)
(* batch, so a call that returns false leaves the prior rows in place.      *)
C19_SingleCommit ==
    [][ acceptances \ acceptances' # {} =>
            \E w \in Workers :
                /\ worker[w].pc = "insert"
                /\ worker'[w].pc = "history"
                /\ worker'[w].transform_success
                /\ BatchAcceptances(worker[w].task.user_id, worker[w].batch_id)
                       \subseteq acceptances' ]_vars

(* C20: batch-level failure of PO reconciliation.  When transform_and_load  *)
(* has returned false the call has committed nothing: the staging rows of   *)
(* its batch are as load_csv wrote them, and no PurchaseOrder, audit entry  *)
(* or Account comes from the batch.                                         *)
C20_NoPartialCommit ==
    \A d \in finished :
        (d.type = "po_process" /\ d.load_success /\ ~d.transform_success) =>
            /\ \A r \in BatchRows(po_staging, d.batch_id) :
                  /\ ~r.meta.is_processed
                  /\ r.meta.validation_errors = validate_record_po(r.data)
                  /\ r.meta.is_valid <=> validate_record_po(r.data) = <<>>
            /\ \A p \in purchase_orders : p.id[1] # d.batch_id
            /\ \A a \in accounts : a.id[1] # d.batch_id
            /\ \A a \in po_audit_log : a.batch_id # d.batch_id

-----------------------------------------------------------------------------
(* Properties of the shutdown and of the workers *)

(* C21: no file is abandoned by a graceful shutdown.  While a file task     *)
(* enqueued before the sentinels is still queued or held by a worker,       *)
(* shutdown_event cannot pass task_queue.join(): the step that cancels the  *)
(* workers and shuts the pool down is not enabled, and has not been taken.  *)
C21_NoFileAbandoned ==
    LET FilePending ==
            \/ \E i \in 1..Len(task_queue) : task_queue[i].type # "shutdown"
            \/ \E w \in Workers : worker[w].task # NoTask
    IN FilePending => (shutdown # "cancel" /\ ~ENABLED shutdown_join)

(* shutdown_event waits in join() while one file is in flight, another is   *)
(* still queued before the sentinels, and a sentinel is already queued.     *)
C21_Witness ==
    /\ shutdown = "join"
    /\ \E w \in Workers : worker[w].task # NoTask /\ worker[w].pc # "idle"
    /\ \E i \in 1..Len(task_queue) : task_queue[i].type # "shutdown"
    /\ \E i \in 1..Len(task_queue) : task_queue[i].type = "shutdown"

(* C22: bounded parallelism.  The file tasks taken from the queue and not   *)
(* yet marked done are exactly the tasks the workers hold, one each, so at  *)
(* most 2; the busy pool threads are at most 2 and fewer than the 4 of the  *)
(* pool; the set of workers stays the one created at startup.               *)
C22_BoundedParallelism ==
    LET TasksInFlight ==
            ((1..uploads) \ rejected)
                \ ({ task_queue[i].id : i \in 1..Len(task_queue) }
                       \cup { d.id : d \in finished })
    IN /\ TasksInFlight = { worker[w].task.id : w \in Workers } \ {0}
       /\ \A v, w \in Workers :
             (worker[v].task # NoTask /\ worker[v].task.id = worker[w].task.id) => v = w
       /\ Cardinality(TasksInFlight) <= NumWorkers
       /\ Cardinality(busy_threads) <= Cardinality(TasksInFlight)
       /\ Cardinality(busy_threads) <= PoolThreads
       /\ NumWorkers <= PoolThreads
       /\ DOMAIN worker = Workers

(* Both workers run a file on a pool thread at the same time. *)
C22_Witness ==
    /\ \A w \in Workers : worker[w].task # NoTask
    /\ \A v, w \in Workers : v # w => worker[v].task.id # worker[w].task.id
    /\ busy_threads = Workers

-----------------------------------------------------------------------------
(* Properties of the accounts *)

(* C23: account classification is first-match-wins over the lower-cased     *)
(* project name in the order iam, orange, inwi; a name matching no rule     *)
(* gives "Other"; needs_review is true exactly for "Other".                 *)
C23_FirstMatchWins ==
    \A a \in accounts :
        LET lowered == Lower(a.project_name)
            iam == Contains(lowered, "iam")
            orange == Contains(lowered, "orange")
            inwi == Contains(lowered, "inwi")
        IN /\ iam => a.account_name = "IAM Account"
           /\ (~iam /\ orange) => a.account_name = "Orange Account"
           /\ (~iam /\ ~orange /\ inwi) => a.account_name = "INWI Account"
           /\ (~iam /\ ~orange /\ ~inwi) => a.account_name = "Other"
           /\ a.needs_review <=> (a.account_name = "Other")

(* An account whose project name matches both iam and orange, and one that  *)
(* matches orange and inwi, are committed.                                  *)
C23_Witness ==
    /\ \E a \in accounts : a.project_name = "Orange IAM" /\ a.account_name = "IAM Account"
    /\ \E a \in accounts : a.project_name = "inwi orange" /\ a.account_name = "Orange Account"

-----------------------------------------------------------------------------
(* Properties of the authoritative tables *)

(* C24: PurchaseOrder rows are never deleted and keep their identity.  No   *)
(* step of a PO or Acceptance upload removes a committed PurchaseOrder row  *)
(* or changes its id, its (tenant, po_number, po_line_no) or its            *)
(* created_at.                                                              *)
C24_POIdentityKept ==
    [][\A p \in purchase_orders :
          \E q \in purchase_orders' :
              /\ q.id = p.id
              /\ po_key(q) = po_key(p)
              /\ q.created_at = p.created_at]_vars

(* A row inserted by the first batch carries an update of the second one.   *)
C24_Witness ==
    \E p \in purchase_orders :
        /\ p.updated_at > 0
        /\ p.created_at = 1
        /\ \E a \in po_audit_log : a.action = "UPDATE" /\ a.batch_id = 2

(* C25: reconciliation consumes only its own rows.  Every Acceptance row,   *)
(* PurchaseOrder version, audit entry and Account a transform_and_load      *)
(* commits is built from a staging row that carries the processor's batch   *)
(* id, belongs to its tenant, is valid and is not yet processed.            *)
C25_OwnRowsOnly ==
    [][LET OwnRows(table, w) ==
               { r \in table : /\ r.meta.batch_id = worker[w].batch_id
                               /\ r.meta.user_id = worker[w].task.user_id
                               /\ r.meta.is_valid
                               /\ ~r.meta.is_processed }
       IN
       \A w \in Workers :
          /\ (worker[w].pc = "insert" /\ worker'[w].pc = "history") =>
                \A x \in acceptances' \ acceptances :
                    \E r \in OwnRows(acceptance_staging, w) :
                        x = create_acceptance_from_staging(worker[w].task.user_id, r)
          /\ (worker[w].pc = "commit" /\ worker'[w].pc = "cleanup") =>
                /\ \A a \in po_audit_log' \ po_audit_log :
                      /\ a.batch_id = worker[w].batch_id
                      /\ \E r \in OwnRows(po_staging, w) :
                            /\ ~create_po_raised(r)
                            /\ \A k \in BusinessFields :
                                  a.new_values[k] =
                                      create_po_from_staging(worker[w].task.user_id, r)[k]
                /\ \A p \in purchase_orders' \ purchase_orders :
                      \E a \in po_audit_log' \ po_audit_log : a.new_values = p
                /\ \A c \in accounts' \ accounts :
                      \E r \in OwnRows(po_staging, w) :
                          c = new_account(worker[w].task.user_id, r)]_vars

(* A batch of t1 with an invalid row has committed an Acceptance row while  *)
(* staging rows of t2 are in the table.                                     *)
C25_Witness ==
    \E x \in acceptances :
        /\ x.user_id = "t1"
        /\ \E r \in acceptance_staging : r.meta.batch_id = x.id[1] /\ ~r.meta.is_valid
        /\ \E r \in acceptance_staging : r.meta.user_id = "t2"

(* C26: Acceptance reconciliation writes only the tenant's Acceptance rows. *)
(* A step of AcceptanceProcessor.transform_and_load creates no audit entry, *)
(* changes no PurchaseOrder, no Account and no Acceptance row of another    *)
(* tenant, and leaves every staging row, with its is_processed and is_valid *)
(* flags, as it was.                                                        *)
C26_AcceptanceFrame ==
    [][\A w \in Workers :
          ( /\ worker[w].task.type = "acceptance_process"
            /\ worker[w].pc \in {"transform", "insert"}
            /\ worker'[w].pc # worker[w].pc )
          => /\ po_audit_log' = po_audit_log
             /\ purchase_orders' = purchase_orders
             /\ accounts' = accounts
             /\ po_staging' = po_staging
             /\ acceptance_staging' = acceptance_staging
             /\ { a \in acceptances' : a.user_id # worker[w].task.user_id }
                    = { a \in acceptances : a.user_id # worker[w].task.user_id }]_vars

(* An Acceptance file has been reconciled while PurchaseOrder, audit and    *)
(* Account rows were committed, and its batch holds an invalid staging row. *)
C26_Witness ==
    /\ purchase_orders # {} /\ po_audit_log # {} /\ accounts # {}
    /\ \E d \in finished :
          /\ d.type = "acceptance_process"
          /\ \E a \in acceptances : a.id[1] = d.batch_id
          /\ \E r \in acceptance_staging : r.meta.batch_id = d.batch_id /\ ~r.meta.is_valid

-----------------------------------------------------------------------------
(* Properties of two tenants *)

(* C27: two workers that process files of different tenants never conflict. *)
(* No step of a task changes or deletes a row of another tenant in the      *)
(* staging, PurchaseOrder, Acceptance, Account, audit or history tables,    *)
(* and no task waits for, or is aborted by, a session of another tenant:    *)
(* each task runs as it does when the two files are processed one after    *)
(* the other.                                                              *)
C27_TenantsIndependent ==
    /\ [](\A w \in Workers :
             worker[w].pc \in {"wait_account", "wait_po"} =>
                 \A v \in WaitsFor(w) : worker[v].task.user_id = worker[w].task.user_id)
    /\ [][\A w \in Workers :
             worker'[w] # worker[w] =>
                 LET user_id == IF worker[w].task # NoTask THEN worker[w].task.user_id
                                ELSE worker'[w].task.user_id
                     OtherTenants(table, u) == { r \in table : r.user_id # u }
                     OtherTenantsStaging(table, u) == { r \in table : r.meta.user_id # u }
                 IN /\ OtherTenantsStaging(po_staging', user_id)
                           = OtherTenantsStaging(po_staging, user_id)
                    /\ OtherTenantsStaging(acceptance_staging', user_id)
                           = OtherTenantsStaging(acceptance_staging, user_id)
                    /\ OtherTenants(purchase_orders', user_id)
                           = OtherTenants(purchase_orders, user_id)
                    /\ OtherTenants(po_audit_log', user_id)
                           = OtherTenants(po_audit_log, user_id)
                    /\ OtherTenants(accounts', user_id) = OtherTenants(accounts, user_id)
                    /\ OtherTenants(acceptances', user_id)
                           = OtherTenants(acceptances, user_id)
                    /\ OtherTenants(upload_history', user_id)
                           = OtherTenants(upload_history, user_id)]_vars

(* The two workers hold, uncommitted, the same purchase order line of two   *)
(* tenants.                                                                 *)
C27_Witness ==
    \E v, w \in Workers :
        /\ worker[v].task.user_id = "t1"
        /\ worker[w].task.user_id = "t2"
        /\ \E p \in worker[v].tx.pos, q \in worker[w].tx.pos :
              p.po_number = q.po_number /\ p.po_line_no = q.po_line_no

-----------------------------------------------------------------------------
(* Properties of the headers *)

(* C28: header normalization collapses repeated underscores and is          *)
(* idempotent.  For the header h of every file whose columns load_csv has   *)
(* mapped, normalize_column_name(h) holds no two adjacent underscores,      *)
(* neither starts nor ends with an underscore, and is its own normal form.  *)
C28_NormalizeIdempotent ==
    \A w \in Workers :
        (worker[w].batch_id # 0 /\ worker[w].pc # "load") =>
            LET n == normalize_column_name(worker[w].task.file.project_header)
            IN /\ ~Contains(n, "__")
               /\ Len(n) > 0 => (SubSeq(n, 1, 1) # "_" /\ SubSeq(n, Len(n), Len(n)) # "_")
               /\ normalize_column_name(n) = n

-----------------------------------------------------------------------------
(* Properties of the result and of the counters *)

(* C29: the result the worker receives from FileService.process_po_file or  *)
(* process_acceptance_file has success = true only if the load and the      *)
(* reconciliation of the file both returned true.                           *)
C29_SuccessMeansBoth ==
    \A w \in Workers :
        (worker[w].pc = "returned" /\ worker[w].result.success) =>
            (worker[w].load_success /\ worker[w].transform_success)

(* C30: the counters agree with the committed state.  When the             *)
(* reconciliation of a PO batch has returned, stats.new_records is the      *)
(* number of PurchaseOrder rows the batch inserted and committed, and of    *)
(* its committed INSERT audit entries, and stats.updated_records is the     *)
(* number of its committed UPDATE audit entries.                            *)
C30_CountersAgree ==
    \A d \in finished :
        (d.type = "po_process" /\ d.load_success) =>
            /\ d.stats.new_records =
                   Cardinality({ p \in purchase_orders : p.created_at = d.batch_id })
            /\ d.stats.new_records =
                   Cardinality({ a \in po_audit_log :
                                     a.batch_id = d.batch_id /\ a.action = "INSERT" })
            /\ d.stats.updated_records =
                   Cardinality({ a \in po_audit_log :
                                     a.batch_id = d.batch_id /\ a.action = "UPDATE" })

====
